---------------------------- MODULE Spec2Model ----------------------------
(***************************************************************************)
(* A model of training_ptr_gen/train.py: the class Train with its          *)
(* checkpoint store (save_model / setup_train), the loss computation of    *)
(* train_one_batch and the loop of trainIters.                             *)
(*                                                                         *)
(* Numbers are fixed-point: probabilities and losses are counted in        *)
(* hundredths (100 is the probability 1, 69 the loss 0.69).                *)
(***************************************************************************)
EXTENDS Integers, Sequences, FiniteSets, TLC

(***************************************************************************)
(* Bounds of the model.                                                    *)
(***************************************************************************)
\* config.batch_size: examples in one batch
batch_size == 2
\* config.max_dec_steps: width of the target arrays of a batch
max_dec_steps == 2
\* source positions the attention distribution ranges over
SrcLen == 2
\* batches in the training data; the batcher cycles through them
DataLen == 3
\* Train objects constructed one after the other (the first run and its resumptions)
MaxRuns == 2
\* seconds the wall clock may advance while a Train object works
MaxTicks == 1
\* calls of save_model from outside trainIters
MaxCalls == 1
\* model parameters are residues modulo ParamMod
ParamMod == 5
\* the optimizer's accumulators saturate at AccCap
AccCap == 6

(***************************************************************************)
(* Program constants.                                                      *)
(***************************************************************************)
\* trainIters: if iter % 5000 == 0
SaveInterval == 5000
\* config.cov_loss_wt
cov_loss_wt == 1
\* config.adagrad_init_acc
adagrad_init_acc == 1
\* config.lr and config.lr_coverage
lr == 3
lr_coverage == 2
\* config.max_grad_norm
max_grad_norm == 2

(***************************************************************************)
(* Arithmetic.                                                             *)
(***************************************************************************)
Min(a, b) == IF a <= b THEN a ELSE b

Max(a, b) == IF a >= b THEN a ELSE b

Abs(a) == IF a < 0 THEN -a ELSE a

\* the fraction n/d (n >= 0, d > 0), as numerator and denominator: what a
\* division of tensors yields
Frac(n, d) == <<n, d>>

FracAdd(x, y) == <<x[1] * y[2] + y[1] * x[2], x[2] * y[2]>>

FracDivInt(x, k) == <<x[1], x[2] * k>>

RECURSIVE SumTo(_, _)
\* s[1] + ... + s[n]
SumTo(s, n) == IF n = 0 THEN 0 ELSE s[n] + SumTo(s, n - 1)

RECURSIVE FracSumTo(_, _)
FracSumTo(s, n) ==
    IF n = 0 THEN <<0, 1>> ELSE FracAdd(s[n], FracSumTo(s, n - 1))

RECURSIVE Isqrt(_)
Isqrt(a) == IF a < 1 THEN 0
            ELSE LET r == 2 * Isqrt(a \div 4)
                 IN IF (r + 1) * (r + 1) <= a THEN r + 1 ELSE r

Examples == 1..batch_size

Positions == 1..SrcLen

Groups == {"encoder", "decoder", "reduce_state"}

(***************************************************************************)
(* train_one_batch: the loss of one batch (lines 105-129).                 *)
(***************************************************************************)
\* what get_output_from_batch hands over: the target lengths; the padding
\* mask of an example is 1 on the positions before its length, 0 after
BatchOf(id, lens) == [id |-> id, dec_lens |-> lens]

dec_padding_mask(batch, e, di) == IF di < batch.dec_lens[e] THEN 1 ELSE 0

RECURSIVE MaxOf(_, _)
MaxOf(f, k) == IF k = 0 THEN 0 ELSE Max(f[k], MaxOf(f, k - 1))

max_dec_len(batch) == MaxOf(batch.dec_lens, batch_size)

\* range(min(max_dec_len, config.max_dec_steps))
DecodeSteps(batch) == Min(max_dec_len(batch), max_dec_steps)

\* -log(gold_probs + config.eps), in hundredths
NegLogEps(p) == CASE p = 100 -> 0
                  [] p = 50 -> 69
                  [] OTHER -> 2763

\* torch.sum(torch.min(attn_dist, coverage), 1) for one example
RECURSIVE SumMin(_, _, _)
SumMin(attn, cov, k) ==
    IF k = 0 THEN 0 ELSE Min(attn[k], cov[k]) + SumMin(attn, cov, k - 1)

\* the step loss of one example before the mask
UnmaskedStepLoss(gold, attn, cov, is_cov) ==
    IF is_cov
    THEN NegLogEps(gold) + cov_loss_wt * SumMin(attn, cov, SrcLen)
    ELSE NegLogEps(gold)

\* a plausible slip: the mask applied before the coverage term is added
MaskBeforeCoverage(gold, attn, cov, mask, is_cov) ==
    IF is_cov
    THEN NegLogEps(gold) * mask + cov_loss_wt * SumMin(attn, cov, SrcLen)
    ELSE NegLogEps(gold) * mask

\* step_loss = step_loss * step_mask
MaskedStepLoss(gold, attn, cov, mask, is_cov) ==
    UnmaskedStepLoss(gold, attn, cov, is_cov) * mask

\* the decoder's outputs the loss reads, for the whole batch: any gold
\* probabilities, and an attention that puts all its weight on one source
\* position, a + e for example e
DecoderOutputs ==
    {[gold_probs |-> g,
      attn_dist |-> [e \in Examples |-> [k \in Positions |->
                        IF k = 1 + ((a + e) % SrcLen) THEN 100 ELSE 0]]] :
        g \in [Examples -> {50, 100}], a \in Positions}

\* decoder: next_coverage = coverage + attn_dist
NextCoverage(cov, attn) ==
    [e \in Examples |-> [k \in Positions |-> cov[e][k] + attn[e][k]]]

ZeroCoverage == [e \in Examples |-> [k \in Positions |-> 0]]

\* a plausible slip: the coverage replaced by next_coverage before the
\* coverage term is computed
StepLossesAfterUpdate(batch, di, out, cov, is_cov) ==
    [e \in Examples |->
        MaskedStepLoss(out.gold_probs[e], out.attn_dist[e],
                       NextCoverage(cov, out.attn_dist)[e],
                       dec_padding_mask(batch, e, di), is_cov)]

\* one pass of the decode loop's body, lines 113-125
StepLosses(batch, di, out, cov, is_cov) ==
    [e \in Examples |->
        MaskedStepLoss(out.gold_probs[e], out.attn_dist[e], cov[e],
                       dec_padding_mask(batch, e, di), is_cov)]

\* torch.sum(torch.stack(step_losses, 1), 1)
SumLosses(losses) ==
    [e \in Examples |-> SumTo([k \in 1..Len(losses) |-> losses[k][e]], Len(losses))]

\* a plausible slip: the sum divided by the number of decode steps
AvgOverSteps(sums, batch) ==
    [e \in Examples |-> Frac(sums[e], DecodeSteps(batch))]

\* batch_avg_loss = sum_losses / dec_lens_var
BatchAvgLoss(sums, batch) ==
    [e \in Examples |-> Frac(sums[e], batch.dec_lens[e])]

\* torch.mean(batch_avg_loss)
MeanLoss(avgs) ==
    FracDivInt(FracSumTo(avgs, batch_size), batch_size)


(***************************************************************************)
(* The model, the optimizer and the batcher, as train.py uses them.        *)
(***************************************************************************)
\* the training data: batch i of DataLen batches
DataBatch(i) ==
    BatchOf(i, [e \in Examples |-> 1 + ((i * e) % max_dec_steps)])

\* Batcher.next_batch with single_pass=False: the k-th batch handed out by a
\* batcher cycles through the training data from its start
BatcherBatch(k) == DataBatch(1 + ((k - 1) % DataLen))

\* Model(None): freshly initialised parameters of the three groups
FreshModel == [g \in Groups |-> 0]

GroupNo(g) == CASE g = "encoder" -> 1 [] g = "decoder" -> 2 [] OTHER -> 3

\* self.model.decoder on a batch: the outputs the loss reads at step di
ModelDecoder(m, batch, di) ==
    [gold_probs |-> [e \in Examples |->
        IF (m["decoder"] + m["encoder"] + batch.id + e + di) % 2 = 0
        THEN 100 ELSE 50],
     attn_dist |-> [e \in Examples |-> [k \in Positions |->
        IF k = 1 + ((m["reduce_state"] + batch.id + e + di) % SrcLen)
        THEN 100 ELSE 0]]]

RECURSIVE ForwardLosses(_, _, _, _, _)
\* the decode loop of train_one_batch from step di on: the list step_losses
ForwardLosses(m, batch, di, cov, is_cov) ==
    IF di >= DecodeSteps(batch) THEN <<>>
    ELSE LET out == ModelDecoder(m, batch, di)
         IN <<StepLosses(batch, di, out, cov, is_cov)>> \o
            ForwardLosses(m, batch, di + 1,
                          IF is_cov THEN NextCoverage(cov, out.attn_dist) ELSE cov,
                          is_cov)

\* loss of train_one_batch, lines 105-129, as a fraction
BatchLoss(m, batch, is_cov) ==
    MeanLoss(BatchAvgLoss(SumLosses(ForwardLosses(m, batch, 0, ZeroCoverage, is_cov)),
                          batch))

\* loss.item(): the float read back, in hundredths
LossItem(x) == x[1] \div x[2]

\* loss.backward(): the gradient of each group
Backward(m, batch, loss) ==
    [g \in Groups |-> ((m[g] + batch.id * GroupNo(g) + loss) % 7) - 3]

\* clip_grad_norm_(parameters, max_norm) on one group
clip_grad_norm_(grad, max_norm) ==
    IF Abs(grad) > max_norm
    THEN (IF grad < 0 THEN -max_norm ELSE max_norm)
    ELSE grad

\* AdagradCustom(params, lr, initial_accumulator_value)
FreshOptimizer(initial_lr) ==
    [lr |-> initial_lr, sum |-> [g \in Groups |-> adagrad_init_acc]]

\* AdagradCustom.step: the parameters moved, then the squared gradient accumulated
OptimizerStepParams(m, opt, grads) ==
    [g \in Groups |->
        (m[g] - (opt.lr * grads[g]) \div (Isqrt(opt.sum[g]) + 1)) % ParamMod]

OptimizerStepState(opt, grads) ==
    [opt EXCEPT !.sum =
        [g \in Groups |-> Min(opt.sum[g] + grads[g] * grads[g], AccCap)]]

\* exponential smoothing with decay 0.99, initialised to the first loss on
\* iteration 0: the exact value, as a fraction of hundredths
RunningAvg(loss_, avg, step) ==
    IF step = 0 THEN Frac(loss_, 1)
    ELSE Frac(99 * avg + loss_, 100)

\* calc_running_avg_loss(loss, running_avg_loss, summary_writer, step): the
\* float kept, in hundredths
calc_running_avg_loss(loss_, avg, step) ==
    LET x == RunningAvg(loss_, avg, step) IN x[1] \div x[2]

\* lines 99-141 of train_one_batch on (model, optimizer): the loss returned
\* and the model and optimizer after optimizer.step()
train_one_batch(m, opt, batch, is_cov) ==
    LET loss == LossItem(BatchLoss(m, batch, is_cov))
        grads == Backward(m, batch, loss)
        clipped == [g \in Groups |-> clip_grad_norm_(grads[g], max_grad_norm)]
    IN [loss |-> loss,
        model |-> OptimizerStepParams(m, opt, clipped),
        optimizer |-> OptimizerStepState(opt, clipped)]


(***************************************************************************)
(* The state.                                                              *)
(***************************************************************************)
VARIABLES
    pc,                \* where trainIters stands
    run,               \* Train objects constructed so far
    clock,             \* int(time.time())
    is_coverage,       \* config.is_coverage of the running process
    n_iters,           \* trainIters' arguments
    model_file_path,
    evaluate,
    iter,              \* trainIters' locals
    running_avg_loss,
    batch,
    model_path,
    model,             \* self.model: the parameters of the three groups
    optimizer,         \* self.optimizer: lr and the accumulators
    batcher,           \* batches self.batcher has handed out
    model_dir,         \* self.model_dir
    files,             \* the checkpoint files: path -> record saved
    start_iter,        \* history: the iteration setup_train returned
    steps,             \* history: optimizer steps of this trainIters
    saved,             \* history: the paths this trainIters saved, in order
    calls,             \* history: calls of save_model from outside trainIters
    cont,              \* history: the state of a run trained without a break
    hist,              \* history: per checkpoint, save_model's arguments,
                       \*   the coverage mode it was saved in, and cont
    raised,            \* history: what raised out of trainIters
    evaluated,         \* history: the paths this trainIters gave BeamSearch
    iter_loss,         \* trainIters' local loss: what train_one_batch returned
    tb_pc,             \* where train_one_batch stands
    di,                \* train_one_batch's locals
    out,
    coverage,
    step_losses,
    sum_losses,
    batch_avg_loss,
    loss,
    grads,             \* the .grad of the three parameter groups
    backward_grads,    \* history: grads as loss.backward() left them
    events             \* history: what train_one_batch has called, in order

loopVars == <<pc, run, clock, n_iters, model_file_path, evaluate, iter,
              running_avg_loss, model_path, model, optimizer, batcher,
              model_dir, files, start_iter, steps, saved, calls,
              cont, hist, raised, evaluated, iter_loss>>

batchVars == <<tb_pc, di, out, coverage, step_losses, sum_losses,
               batch_avg_loss, loss, grads, backward_grads,
               events>>

vars == <<loopVars, batchVars, is_coverage, batch>>

\* None, where a path is expected: no path (the paths are tuples)
None == <<>>

\* no exception has left trainIters
NoError == "none"

NoOutputs == [gold_probs |-> <<>>, attn_dist |-> <<>>]

\* the .grad fields before any backward pass
NoGrads == [g \in Groups |-> 0]

\* train_one_batch not running
BatchIdle ==
    /\ tb_pc = "idle"
    /\ di = 0
    /\ out = NoOutputs
    /\ coverage = ZeroCoverage
    /\ step_losses = <<>>
    /\ sum_losses = <<>>
    /\ batch_avg_loss = <<>>
    /\ loss = <<0, 1>>
    /\ grads = NoGrads
    /\ backward_grads = NoGrads
    /\ events = <<>>

\* the iteration counts trainIters is called with
Targets == {0, 2, SaveInterval, SaveInterval + 1}

\* line 143: evaluate=False, the value of a call that does not pass it, as
\* the call of lines 206-207 does not
evaluate_default == FALSE

\* a time.time() read: the clock may have advanced
ClockReads == {t \in clock..(clock + 1) : t <= 15 * run + MaxTicks}

(***************************************************************************)
(* Train.save_model (lines 48-60): the record, the path, the file written. *)
(***************************************************************************)
CheckpointState(m, opt, avg, it) ==
    [iter |-> it,
     encoder_state_dict |-> m["encoder"],
     decoder_state_dict |-> m["decoder"],
     reduce_state_dict |-> m["reduce_state"],
     optimizer |-> opt,
     current_loss |-> avg]

\* os.path.join(self.model_dir, 'model_%d_%d' % (iter, int(time.time())))
ModelSavePath(dir, it, t) == <<dir, it, t>>

\* torch.save(state, model_save_path)
TorchSave(fs, path, state) ==
    [p \in DOMAIN fs \cup {path} |-> IF p = path THEN state ELSE fs[p]]

(***************************************************************************)
(* Train.setup_train (lines 62-91).                                        *)
(***************************************************************************)
\* Model(model_file_path)
LoadModel(path) ==
    IF path = None THEN FreshModel
    ELSE [g \in Groups |->
            CASE g = "encoder" -> files[path].encoder_state_dict
              [] g = "decoder" -> files[path].decoder_state_dict
              [] OTHER -> files[path].reduce_state_dict]

initial_lr(is_cov) == IF is_cov THEN lr_coverage ELSE lr

\* a plausible slip: setup_train never loads the persisted optimizer state
SetupOptimizerNeverLoads(path, is_cov) == FreshOptimizer(initial_lr(is_cov))

\* lines 69-72 and 83-84: the optimizer after setup_train
SetupOptimizer(path, is_cov) ==
    IF path # None /\ ~is_cov
    THEN files[path].optimizer
    ELSE FreshOptimizer(initial_lr(is_cov))

\* a plausible slip: setup_train leaves the counter at 0
SetupIterZero(path) == 0

\* line 80
SetupIter(path) == IF path = None THEN 0 ELSE files[path].iter

\* a plausible slip: setup_train hands back the running loss of a fresh run
SetupLossZero(path) == 0

\* line 81
SetupLoss(path) == IF path = None THEN 0 ELSE files[path].current_loss


(***************************************************************************)
(* Train.trainIters (lines 143-178), one Train object after the other.     *)
(***************************************************************************)
\* a plausible slip: the loop runs while iter <= n_iters
LoopTestInclusive(it, n) == it <= n

\* line 148: while iter < n_iters
LoopTest(it, n) == it < n

\* a plausible slip: the schedule tested before the counter is incremented
SaveDueBeforeIncrement(it) == (it - 1) % SaveInterval = 0

\* a plausible slip: a checkpoint also when the target is reached
SaveDueOrLast(it) == it % SaveInterval = 0 \/ it = n_iters

\* line 166: if iter % 5000 == 0
SaveDue(it) == it % SaveInterval = 0

\* a plausible slip: the record built from the parameters and accumulators
\* as they stood before this iteration's optimizer step
save_model_before_step(m, opt, avg, it, t) ==
    [path |-> ModelSavePath(model_dir, it, t),
     state |-> CheckpointState(model, optimizer, avg, it)]

\* save_model(running_avg_loss, iter) at clock reading t: the path returned
\* and the record written there
save_model(m, opt, avg, it, t) ==
    [path |-> ModelSavePath(model_dir, it, t),
     state |-> CheckpointState(m, opt, avg, it)]

\* the reference run: trained from iteration 0 without a break, on the
\* batches a batcher hands out in that order; taken says that the checkpoint
\* resumed from was taken by trainIters at its iteration, in the coverage
\* mode of the resumed run
FreshCont(is_cov) ==
    [model |-> FreshModel,
     optimizer |-> FreshOptimizer(initial_lr(is_cov)),
     taken |-> TRUE]

ContStep(c, it, is_cov) ==
    LET r == train_one_batch(c.model, c.optimizer, BatcherBatch(it), is_cov)
    IN [c EXCEPT !.model = r.model, !.optimizer = r.optimizer]

\* Train() constructed (lines 27-46), nothing set up or trained yet
Constructed ==
    /\ run = 1
    /\ clock = 15
    /\ model_file_path = None
    /\ iter = 0
    /\ running_avg_loss = 0
    /\ model_path = None
    /\ model = FreshModel
    /\ optimizer = FreshOptimizer(lr)
    /\ batcher = 0
    /\ model_dir = 15
    /\ files = <<>>
    /\ start_iter = 0
    /\ steps = 0
    /\ saved = <<>>
    /\ calls = 0
    /\ cont = FreshCont(FALSE)
    /\ hist = <<>>
    /\ raised = NoError
    /\ evaluated = <<>>
    /\ iter_loss = 0

\* Train() and the call trainIters(n, None, ev), config.is_coverage being set
Init ==
    /\ Constructed
    /\ pc = "setup"
    /\ is_coverage \in BOOLEAN
    /\ n_iters \in Targets
    /\ evaluate \in {evaluate_default, TRUE}
    /\ batch = BatchOf(0, <<>>)
    /\ BatchIdle

\* line 144: iter, running_avg_loss = self.setup_train(model_file_path)
SetupTrain ==
    /\ pc = "setup"
    /\ model' = LoadModel(model_file_path)
    /\ optimizer' = SetupOptimizer(model_file_path, is_coverage)
    /\ iter' = SetupIter(model_file_path)
    /\ running_avg_loss' = SetupLoss(model_file_path)
    /\ start_iter' = SetupIter(model_file_path)
    /\ steps' = 0
    /\ saved' = <<>>
    /\ evaluated' = <<>>
    /\ cont' = IF model_file_path = None
               THEN FreshCont(is_coverage)
               ELSE [hist[model_file_path].cont EXCEPT !.taken =
                       @ /\ hist[model_file_path].is_coverage = is_coverage]
    /\ pc' = "loop"
    /\ UNCHANGED <<run, clock, is_coverage, n_iters, model_file_path, evaluate,
                   batch, model_path, batcher, model_dir, files, calls, hist,
                   raised, iter_loss, batchVars>>

\* lines 148-152: the loop test passes and next_batch returns
NextBatch ==
    /\ pc = "loop"
    /\ LoopTest(iter, n_iters)
    /\ batcher' = batcher + 1
    /\ batch' = BatcherBatch(batcher + 1)
    /\ pc' = "train"
    /\ UNCHANGED <<run, clock, is_coverage, n_iters, model_file_path, evaluate,
                   iter, running_avg_loss, model_path, model, optimizer,
                   model_dir, files, start_iter, steps, saved, calls,
                   cont, hist, raised, evaluated, iter_loss, batchVars>>

\* line 148: the loop test fails and trainIters returns
LoopExit ==
    /\ pc = "loop"
    /\ ~LoopTest(iter, n_iters)
    /\ pc' = "done"
    /\ UNCHANGED <<run, clock, is_coverage, n_iters, model_file_path, evaluate,
                   iter, running_avg_loss, batch, model_path, model, optimizer,
                   batcher, model_dir, files, start_iter, steps, saved,
                   calls, cont, hist, raised, evaluated, iter_loss, batchVars>>

\* a plausible slip: the evaluator called outside the checkpoint's branch
EvalDueEveryIteration(it, ev) == ev

\* lines 166-170: if evaluate, nested in if iter % 5000 == 0
EvalDue(it, ev) == SaveDue(it) /\ ev

\* lines 155-172, after train_one_batch has returned loss l and left the
\* parameters m and the optimizer opt: the running average, the counter,
\* the checkpoint when due and the evaluator's call
EndOfIteration(m, opt, l) ==
    LET avg == calc_running_avg_loss(l, running_avg_loss, iter)
        it == iter + 1
    IN /\ iter_loss' = l
       /\ running_avg_loss' = avg
       /\ iter' = it
       /\ steps' = steps + 1
       /\ cont' = ContStep(cont, it, is_coverage)
       /\ IF SaveDue(it)
          THEN \E t \in ClockReads :
                 LET s == save_model(m, opt, avg, it, t)
                 IN /\ clock' = t
                    /\ files' = TorchSave(files, s.path, s.state)
                    /\ model_path' = s.path
                    /\ saved' = Append(saved, s.path)
                    /\ hist' = TorchSave(hist, s.path,
                                  [is_coverage |-> is_coverage,
                                   running_avg_loss |-> avg, iter |-> it,
                                   cont |-> cont'])
          ELSE UNCHANGED <<clock, files, model_path, saved, hist>>
       /\ IF EvalDue(it, evaluate)
          THEN /\ evaluated' = Append(evaluated, model_path')
               /\ pc' = "eval"
          ELSE /\ evaluated' = evaluated
               /\ pc' = "loop"

\* lines 153-172: train_one_batch and the rest of the loop's body
Iteration ==
    /\ pc = "train"
    /\ LET r == train_one_batch(model, optimizer, batch, is_coverage)
       IN /\ model' = r.model
          /\ optimizer' = r.optimizer
          /\ EndOfIteration(r.model, r.optimizer, r.loss)
    /\ UNCHANGED <<run, is_coverage, n_iters, model_file_path, evaluate, batch,
                   batcher, model_dir, start_iter, calls, raised, batchVars>>

\* lines 171-172: BeamSearch(model_path).decode() returns
EvalReturns ==
    /\ pc = "eval"
    /\ pc' = "loop"
    /\ UNCHANGED <<run, clock, is_coverage, n_iters, model_file_path, evaluate,
                   iter, running_avg_loss, batch, model_path, model, optimizer,
                   batcher, model_dir, files, start_iter, steps, saved,
                   calls, cont, hist, raised, evaluated, iter_loss, batchVars>>

\* lines 171-172: BeamSearch(model_path) or its decode() raises; nothing
\* catches the exception
EvalRaises ==
    /\ pc = "eval"
    /\ pc' = "aborted"
    /\ raised' = "evaluation"
    /\ UNCHANGED <<run, clock, is_coverage, n_iters, model_file_path, evaluate,
                   iter, running_avg_loss, batch, model_path, model, optimizer,
                   batcher, model_dir, files, start_iter, steps, saved,
                   calls, cont, hist, evaluated, iter_loss, batchVars>>

\* save_model(running_avg_loss, N) called on the Train object by the caller of
\* trainIters, after trainIters has returned
DirectIters == {SaveInterval, 2 * SaveInterval - 1}

SaveCall ==
    /\ pc = "done"
    /\ calls < MaxCalls
    /\ \E N \in DirectIters, t \in ClockReads :
         LET s == save_model(model, optimizer, running_avg_loss, N, t)
         IN /\ clock' = t
            /\ files' = TorchSave(files, s.path, s.state)
            /\ hist' = TorchSave(hist, s.path,
                          [is_coverage |-> is_coverage,
                           running_avg_loss |-> running_avg_loss, iter |-> N,
                           cont |-> [cont EXCEPT !.taken = FALSE]])
    /\ calls' = calls + 1
    /\ UNCHANGED <<pc, run, is_coverage, n_iters, model_file_path, evaluate,
                   iter, running_avg_loss, batch, model_path, model, optimizer,
                   batcher, model_dir, start_iter, steps, saved, cont,
                   raised, evaluated, iter_loss, batchVars>>

\* the iteration counts a resumed run is called with
ResumeTargets(path) == {0, files[path].iter + 2}

\* a later process: Train() (lines 27-46) and trainIters(n, path, ev) on a
\* checkpoint an earlier process wrote. Its time.sleep(15) (line 35) puts the
\* clock reading that names its directory 15 seconds on; any further delay
\* counts among the seconds the clock advances at the later readings.
Resume ==
    /\ pc \in {"done", "aborted"}
    /\ run < MaxRuns
    /\ \E path \in DOMAIN files, ev \in BOOLEAN, cov \in BOOLEAN :
         \E n \in ResumeTargets(path) :
           /\ model_file_path' = path
           /\ n_iters' = n
           /\ evaluate' = ev
           /\ is_coverage' = cov
    /\ run' = run + 1
    /\ clock' = clock + 15
    /\ model_dir' = clock + 15
    /\ batcher' = 0
    /\ pc' = "setup"
    /\ iter' = 0
    /\ running_avg_loss' = 0
    /\ batch' = BatchOf(0, <<>>)
    /\ model_path' = None
    /\ model' = FreshModel
    /\ optimizer' = FreshOptimizer(lr)
    /\ start_iter' = 0
    /\ steps' = 0
    /\ saved' = <<>>
    /\ cont' = FreshCont(FALSE)
    /\ raised' = NoError
    /\ evaluated' = <<>>
    /\ iter_loss' = 0
    /\ UNCHANGED <<files, calls, hist, batchVars>>

Next ==
    \/ SetupTrain
    \/ NextBatch
    \/ LoopExit
    \/ Iteration
    \/ EvalReturns
    \/ EvalRaises
    \/ SaveCall
    \/ Resume

Spec == Init /\ [][Next]_vars


\* trainIters when next_batch always returns and nothing raises: every step
\* of the single-threaded loop is taken once it can be; whether the caller
\* saves the model or a later process resumes is up to the caller. The first
\* run is a short one; later runs resume from the checkpoints the caller saved.
InitShort == Init /\ n_iters < SaveInterval

NextNoRaise ==
    \/ SetupTrain
    \/ NextBatch
    \/ LoopExit
    \/ Iteration
    \/ EvalReturns
    \/ SaveCall
    \/ Resume

\* trainIters leaves position p. Under NextNoRaise these are the steps of
\* SetupTrain (p = "setup"), NextBatch and LoopExit ("loop"), Iteration
\* ("train") and EvalReturns ("eval"), each of which can be taken whenever
\* trainIters stands at its position.
Leaves(p) ==
    /\ pc = p
    /\ pc' \in {"setup", "loop", "train", "eval", "done", "aborted"} \ {p}

SpecLive ==
    /\ InitShort
    /\ [][NextNoRaise]_vars
    /\ WF_pc(Leaves("setup"))
    /\ WF_pc(Leaves("loop"))
    /\ WF_pc(Leaves("train"))
    /\ WF_pc(Leaves("eval"))

(***************************************************************************)
(* Properties of trainIters.                                               *)
(***************************************************************************)
\* trainIters has set up and not failed
Running == pc \in {"loop", "train", "eval", "done"}

\* trainIters has returned with the counts the claim gives
C1_Final ==
    /\ pc = "done"
    /\ iter = Max(start_iter, n_iters)
    /\ batcher = Max(0, n_iters - start_iter)
    /\ steps = batcher

\* while trainIters runs: the batches fetched are trained on one by one, each
\* once, the counter never passes max(s, n), and with s >= n nothing is
\* fetched or trained
C1_Counts ==
    Running =>
      /\ iter = start_iter + steps
      /\ batcher = steps + (IF pc = "train" THEN 1 ELSE 0)
      /\ pc = "train" => batch = BatcherBatch(batcher)
      /\ iter <= Max(start_iter, n_iters)
      /\ start_iter >= n_iters => (batcher = 0 /\ steps = 0)
      /\ pc = "done" => C1_Final

\* C1: provided next_batch always returns and no step raises, trainIters
\* started at iteration s with target n terminates, having fetched and
\* trained on exactly max(0, n - s) batches, each once, the counter being
\* max(s, n); with s >= n no batch is fetched and no optimizer step taken.
C1_TrainItersTerminates ==
    /\ []C1_Counts
    /\ (pc = "setup") ~> C1_Final

\* C1's case: a resumed run (s = 5000) that trained up to a later target
C1_Witness ==
    /\ pc = "done"
    /\ start_iter = SaveInterval
    /\ n_iters = SaveInterval + 2
    /\ batcher = 2
    /\ steps = 2

\* the path the loop saved last
LastSaved == saved[Len(saved)]

\* what C2 says of one step of trainIters
C2_Step ==
    /\ pc = "train" =>
         /\ iter' = iter + 1
         /\ running_avg_loss' =
              calc_running_avg_loss(
                  train_one_batch(model, optimizer, batch, is_coverage).loss,
                  running_avg_loss, iter)
         /\ IF iter' > 0 /\ iter' % SaveInterval = 0
            THEN /\ saved' = Append(saved, model_path')
                 /\ model_path' \in DOMAIN files'
                 /\ files'[model_path'].iter = iter'
                 /\ files'[model_path'].current_loss = running_avg_loss'
                 /\ \A p \in DOMAIN files : p # model_path' => files'[p] = files[p]
            ELSE /\ saved' = saved
                 /\ files' = files
    /\ pc \in {"setup", "loop", "eval"} => (saved' = saved /\ files' = files)

\* C2: during trainIters a checkpoint is written in exactly the iterations
\* whose incremented counter is a positive multiple of 5000; the record
\* written holds that counter and the running average loss as updated in
\* the same iteration, and no other step of trainIters writes a file.
C2_CheckpointSchedule == [][C2_Step]_vars

\* C2's case: the loop has just written the checkpoint of iteration 10000
C2_Witness ==
    /\ pc \in {"loop", "eval"}
    /\ iter = 2 * SaveInterval
    /\ saved # <<>>
    /\ files[LastSaved].iter = iter
    /\ files[LastSaved].current_loss = running_avg_loss
    /\ running_avg_loss > 0

\* C3: a checkpoint written by save_model(L, N) and passed to setup_train
\* yields start iteration N and running loss L, and the loop counts on from
\* N: after k iterations of the resumed run the counter is N + k.
C3_RoundTrip ==
    (Running /\ model_file_path # None) =>
      /\ start_iter = hist[model_file_path].iter
      /\ iter = hist[model_file_path].iter + steps
      /\ steps = 0 => running_avg_loss = hist[model_file_path].running_avg_loss

\* C3's case: the first new iteration of a run resumed from a checkpoint
\* with a positive running loss
C3_Witness ==
    /\ pc = "loop"
    /\ model_file_path # None
    /\ steps = 1
    /\ hist[model_file_path].running_avg_loss > 0
    /\ iter = hist[model_file_path].iter + 1

\* setup_train has just returned on a checkpoint
Resumed == pc = "loop" /\ steps = 0 /\ model_file_path # None

\* C4 (fails): a run resumed from a checkpoint trainIters took at iteration
\* N, in the same coverage mode, has after K more iterations the parameters
\* and accumulators of the run trained without a break to N + K.
C4_ResumeMatchesContinuous ==
    (Running /\ model_file_path # None /\ cont.taken /\ pc # "train") =>
      /\ model = cont.model
      /\ optimizer = cont.optimizer

\* C5 as claimed (fails): after setup_train on a checkpoint, whatever the
\* coverage setting, the accumulators are those persisted in the checkpoint.
C5_AlwaysRestored ==
    Resumed => optimizer.sum = files[model_file_path].optimizer.sum

\* C5 amended: after setup_train on a checkpoint with coverage disabled the
\* optimizer state is the one persisted in the checkpoint; on a resume that
\* enters coverage mode (checkpoint saved with coverage disabled, run with
\* coverage enabled) the accumulators are the initial constant and the
\* learning rate is the coverage one; on a fresh run the accumulators are the
\* initial constant.
C5_RestoredUnlessCoverage ==
    /\ (Resumed /\ ~is_coverage) =>
         optimizer = files[model_file_path].optimizer
    /\ (Resumed /\ is_coverage /\ ~hist[model_file_path].is_coverage) =>
         optimizer = FreshOptimizer(lr_coverage)
    /\ (pc = "loop" /\ steps = 0 /\ model_file_path = None) =>
         optimizer.sum = [g \in Groups |-> adagrad_init_acc]

\* C5's case: a resume with coverage disabled from a checkpoint whose
\* accumulators have moved off the initial constant
C5_Witness ==
    /\ Resumed
    /\ ~is_coverage
    /\ \E g \in Groups : files[model_file_path].optimizer.sum[g] # adagrad_init_acc
    /\ optimizer.sum = files[model_file_path].optimizer.sum

\* C6 (fails): on a resumed run the persisted optimizer state is discarded
\* only when the checkpoint was saved with coverage disabled and the run has
\* coverage enabled; in every other resume it is loaded.
C6_DiscardedOnlyOnTransition ==
    (Resumed /\ ~(~hist[model_file_path].is_coverage /\ is_coverage)) =>
      optimizer = files[model_file_path].optimizer

\* C7 (fails): an evaluator that raises does not abort training.
C7_EvaluationFailureIsolated == raised = "evaluation" => pc # "aborted"

\* what C8 says of one step: a step in which save_model is called (by the
\* loop, or directly) writes a file at a path no earlier call returned
C8_Step ==
    (calls' # calls \/ Len(saved') > Len(saved)) =>
      DOMAIN files' # DOMAIN files

\* C8 (fails): any two calls of save_model return distinct paths, so that no
\* checkpoint once written is overwritten by a later save.
C8_DistinctPaths == [][C8_Step]_vars

\* what C12 says of one iteration of trainIters, l being its loss and x the
\* exact smoothed value
C12_Step ==
    pc = "train" =>
      LET l == iter_loss'
          x == RunningAvg(l, running_avg_loss, iter)
      IN /\ l = train_one_batch(model, optimizer, batch, is_coverage).loss
         /\ running_avg_loss' = x[1] \div x[2]
         /\ (model_file_path = None /\ steps = 0) =>
              (iter = 0 /\ running_avg_loss' = l)
         /\ (iter >= 1 /\ l # running_avg_loss) =>
              /\ Min(running_avg_loss, l) * x[2] < x[1]
              /\ x[1] < Max(running_avg_loss, l) * x[2]
         /\ (model_file_path # None /\ steps = 0) =>
              /\ iter >= 1
              /\ x = Frac(99 * hist[model_file_path].running_avg_loss + l, 100)

\* C12: on a fresh run the running average loss after the first iteration
\* is that iteration's loss; after every later iteration its exact value
\* lies strictly between the previous running average and the current loss
\* when the two differ (the value kept is that value in hundredths); on a
\* resumed run the first update smooths against the running loss the
\* checkpoint was saved with.
C12_RunningAverage == [][C12_Step]_vars

\* C12's case: the first update of a resumed run, the loss differing from the
\* restored running loss; the average has moved off the restored value
\* towards the loss without reaching it
C12_Witness ==
    /\ pc = "loop"
    /\ model_file_path # None
    /\ steps = 1
    /\ hist[model_file_path].running_avg_loss > iter_loss + 1
    /\ running_avg_loss < hist[model_file_path].running_avg_loss
    /\ running_avg_loss > iter_loss

\* the evaluator calls of the current run are the checkpoints it wrote, in
\* order; while the evaluator runs it runs on the path save_model returned in
\* this iteration, and the batches fetched are those of the iterations done
C14_Evaluated ==
    /\ evaluate = evaluate_default => evaluated = <<>>
    /\ ~evaluate => pc # "eval"
    /\ evaluate => evaluated = saved
    /\ pc = "eval" =>
         /\ evaluated # <<>>
         /\ evaluated[Len(evaluated)] = model_path
         /\ model_path \in DOMAIN files
         /\ files[model_path].iter = iter
         /\ iter % SaveInterval = 0
         /\ batcher = steps

\* the evaluator is called by the step that saves, and no batch is fetched
\* until it has returned
C14_Step ==
    /\ evaluated' # evaluated /\ pc' # "setup" =>
         /\ evaluate
         /\ Len(saved') = Len(saved) + 1
         /\ evaluated' = Append(evaluated, model_path')
         /\ pc' = "eval"
    /\ pc = "eval" => batcher' = batcher /\ pc' \in {"loop", "aborted"}
    /\ batcher' = batcher + 1 => pc = "loop"

\* C14: the evaluator is invoked only when evaluation is enabled, only in an
\* iteration that wrote a checkpoint, exactly once per such checkpoint, on
\* exactly the path save_model just returned, and it completes before the
\* next batch is fetched; with evaluation disabled (the default, which the
\* command-line entry point uses) it is never invoked.
C14_EvaluatorInvocation ==
    /\ []C14_Evaluated
    /\ [][C14_Step]_vars

\* C14's case: a run with evaluation enabled wrote the checkpoint of
\* iteration 5000, the evaluator ran on it and returned, and the next batch
\* has been fetched
C14_Witness ==
    /\ evaluate
    /\ pc = "train"
    /\ iter = SaveInterval
    /\ Len(saved) = 1
    /\ evaluated = saved
    /\ batcher = steps + 1

\* what C15 says of an iteration of trainIters that saves: the record holds
\* the parameters and accumulators train_one_batch left, which are those of
\* the Train object when the save is finished, under the iteration counter
\* that counts the optimizer steps of this run from its start
C15_Step ==
    (pc = "train" /\ Len(saved') > Len(saved)) =>
      LET r == train_one_batch(model, optimizer, batch, is_coverage)
          st == files'[model_path']
      IN /\ st.encoder_state_dict = r.model["encoder"]
         /\ st.decoder_state_dict = r.model["decoder"]
         /\ st.reduce_state_dict = r.model["reduce_state"]
         /\ st.optimizer = r.optimizer
         /\ model' = r.model
         /\ optimizer' = r.optimizer
         /\ steps' = steps + 1
         /\ st.iter - start_iter = steps'
         /\ st.iter = iter'

\* C15: every checkpoint captures a parameter and optimizer state on an
\* iteration boundary: the state stored in a checkpoint with iteration k, in a
\* run started at iteration s, is the result of exactly k - s completed
\* optimizer steps of that run, never a state from before the optimizer step,
\* and no optimizer step happens between reading the state and finishing the
\* save.
C15_CheckpointOnIterationBoundary == [][C15_Step]_vars

\* C15's case: a run resumed at iteration 9999 saved at iteration 10000,
\* after one optimizer step that changed the parameters it had loaded
C15_Witness ==
    /\ pc \in {"loop", "eval"}
    /\ start_iter = 2 * SaveInterval - 1
    /\ steps = 1
    /\ Len(saved) = 1
    /\ files[LastSaved].iter = 2 * SaveInterval
    /\ files[LastSaved].encoder_state_dict = model["encoder"]
    /\ model # LoadModel(model_file_path)

\* the largest multiple of the checkpoint interval that is at most n
LastMultiple(n) == SaveInterval * (n \div SaveInterval)

\* C18: when trainIters terminates after running from iteration s to target
\* n, the newest checkpoint written by that run has iteration equal to the
\* largest multiple of 5000 in (s, n], and if that range holds no multiple of
\* 5000 the run wrote no checkpoint at all; so unless n is a multiple of 5000
\* the iterations after that multiple, n mod 5000 of them, are in no
\* checkpoint.
C18_NewestCheckpoint ==
    pc = "done" =>
      IF LastMultiple(n_iters) > start_iter
      THEN /\ saved # <<>>
           /\ files[LastSaved].iter = LastMultiple(n_iters)
           /\ \A i \in 1..Len(saved) :
                files[saved[i]].iter <= LastMultiple(n_iters)
           /\ iter = n_iters
           /\ iter - files[LastSaved].iter = n_iters % SaveInterval
      ELSE /\ saved = <<>>
           /\ iter = Max(start_iter, n_iters)

\* C18's case: a fresh run to 5001 has returned; its one checkpoint is that
\* of iteration 5000 and holds other parameters than the run ended with
C18_Witness ==
    /\ pc = "done"
    /\ start_iter = 0
    /\ n_iters = SaveInterval + 1
    /\ iter = n_iters
    /\ Len(saved) = 1
    /\ files[LastSaved].iter = SaveInterval
    /\ files[LastSaved].encoder_state_dict # model["encoder"]

(***************************************************************************)
(* Train.train_one_batch step by step: the last iteration of a short run,  *)
(* on any outputs of the decoder.                                          *)
(***************************************************************************)
\* Train() and trainIters(n, None) for a target of a few iterations
InitBatch ==
    /\ Constructed
    /\ pc = "setup"
    /\ n_iters \in 1..DataLen
    /\ evaluate = FALSE
    /\ is_coverage \in BOOLEAN
    /\ batch = BatchOf(0, <<>>)
    /\ BatchIdle

\* the iteration followed step by step is the last one of the run
LastIteration == iter + 1 = n_iters

\* the gradients train_one_batch leaves in .grad: backward's, clipped
TrainGrads(m, batch_, is_cov) ==
    LET g == Backward(m, batch_, LossItem(BatchLoss(m, batch_, is_cov)))
    IN [h \in Groups |-> clip_grad_norm_(g[h], max_grad_norm)]

\* an iteration before the last, in one step; its gradients stay in .grad
EarlierIteration ==
    /\ pc = "train"
    /\ tb_pc = "idle"
    /\ ~LastIteration
    /\ LET r == train_one_batch(model, optimizer, batch, is_coverage)
       IN /\ model' = r.model
          /\ optimizer' = r.optimizer
          /\ EndOfIteration(r.model, r.optimizer, r.loss)
    /\ grads' = TrainGrads(model, batch, is_coverage)
    /\ backward_grads' = Backward(model, batch,
                             LossItem(BatchLoss(model, batch, is_coverage)))
    /\ UNCHANGED <<run, is_coverage, n_iters, model_file_path, evaluate, batch,
                   batcher, model_dir, start_iter, calls, raised, tb_pc, di,
                   out, coverage, step_losses, sum_losses, batch_avg_loss,
                   loss, events>>

\* lines 94-97: get_input_from_batch and get_output_from_batch
Adapters ==
    /\ pc = "train"
    /\ tb_pc = "idle"
    /\ LastIteration
    /\ tb_pc' = "zero_grad"
    /\ coverage' = ZeroCoverage
    /\ events' = <<>>
    /\ UNCHANGED <<loopVars, is_coverage, batch, di, out, step_losses,
                   sum_losses, batch_avg_loss, loss, grads, backward_grads>>

\* line 99: self.optimizer.zero_grad()
ZeroGrad ==
    /\ tb_pc = "zero_grad"
    /\ grads' = NoGrads
    /\ events' = Append(events, "zero_grad")
    /\ tb_pc' = "encoder"
    /\ UNCHANGED <<loopVars, is_coverage, batch, di, out, coverage,
                   step_losses, sum_losses, batch_avg_loss, loss,
                   backward_grads>>

\* lines 101-102: self.model.encoder(enc_batch, enc_lens)
Encoder ==
    /\ tb_pc = "encoder"
    /\ events' = Append(events, "encoder")
    /\ tb_pc' = "reduce_state"
    /\ UNCHANGED <<loopVars, is_coverage, batch, di, out, coverage,
                   step_losses, sum_losses, batch_avg_loss, loss, grads,
                   backward_grads>>

\* lines 103-105: self.model.reduce_state(encoder_hidden), step_losses = []
ReduceState ==
    /\ tb_pc = "reduce_state"
    /\ events' = Append(events, "reduce_state")
    /\ tb_pc' = "decode"
    /\ di' = 0
    /\ step_losses' = <<>>
    /\ UNCHANGED <<loopVars, is_coverage, batch, out, coverage, sum_losses,
                   batch_avg_loss, loss, grads, backward_grads>>

\* lines 106-125: one pass of the decode loop, the decoder returning o
DecodeStep ==
    /\ tb_pc = "decode"
    /\ di < DecodeSteps(batch)
    /\ \E o \in DecoderOutputs :
         /\ out' = o
         /\ step_losses' = Append(step_losses,
                              StepLosses(batch, di, o, coverage, is_coverage))
         /\ coverage' = IF is_coverage
                        THEN NextCoverage(coverage, o.attn_dist)
                        ELSE coverage
    /\ di' = di + 1
    /\ events' = Append(events, "decoder")
    /\ UNCHANGED <<loopVars, is_coverage, batch, tb_pc, sum_losses,
                   batch_avg_loss, loss, grads, backward_grads>>

\* lines 127-129: the decode loop has ended; the three reductions
ReduceLoss ==
    /\ tb_pc = "decode"
    /\ ~(di < DecodeSteps(batch))
    /\ sum_losses' = SumLosses(step_losses)
    /\ batch_avg_loss' = BatchAvgLoss(sum_losses', batch)
    /\ loss' = MeanLoss(batch_avg_loss')
    /\ tb_pc' = "backward"
    /\ UNCHANGED <<loopVars, is_coverage, batch, di, out, coverage,
                   step_losses, grads, backward_grads, events>>



\* line 131: loss.backward() adds the gradient of the loss to .grad
BackwardPass ==
    /\ tb_pc = "backward"
    /\ LET g == Backward(model, batch, LossItem(loss))
       IN grads' = [h \in Groups |-> grads[h] + g[h]]
    /\ backward_grads' = grads'
    /\ events' = Append(events, "backward")
    /\ tb_pc' = "clip_encoder"
    /\ UNCHANGED <<loopVars, is_coverage, batch, di, out, coverage,
                   step_losses, sum_losses, batch_avg_loss, loss>>

\* a plausible slip: one clip_grad_norm_ over the parameters of all groups,
\* which scales every gradient by max_norm over the norm of the whole
ClippedByTotalNorm(gr, g) ==
    LET total == Isqrt(gr["encoder"] * gr["encoder"]
                       + gr["decoder"] * gr["decoder"]
                       + gr["reduce_state"] * gr["reduce_state"])
    IN IF total > max_grad_norm
       THEN (IF gr[g] < 0 THEN -1 ELSE 1)
            * ((Abs(gr[g]) * max_grad_norm) \div total)
       ELSE gr[g]

\* lines 133-137: each clip_grad_norm_ call is handed the parameters of one
\* group and config.max_grad_norm; the gradient of group g after its call
ClippedGroup(gr, g) == clip_grad_norm_(gr[g], max_grad_norm)

\* the call of clip_grad_norm_ on group g at position p, q the next position
ClipCall(g, p, q) ==
    /\ tb_pc = p
    /\ grads' = [grads EXCEPT ![g] = ClippedGroup(grads, g)]
    /\ events' = Append(events, p)
    /\ tb_pc' = q
    /\ UNCHANGED <<loopVars, is_coverage, batch, di, out, coverage,
                   step_losses, sum_losses, batch_avg_loss, loss,
                   backward_grads>>

\* lines 133-134
ClipEncoder == ClipCall("encoder", "clip_encoder", "clip_decoder")

\* a plausible slip: the clipping of the state reducer's gradients left out
ClipDecoderThenStep == ClipCall("decoder", "clip_decoder", "step")

\* line 135
ClipDecoder == ClipCall("decoder", "clip_decoder", "clip_reduce_state")

\* lines 136-137
ClipReduceState == ClipCall("reduce_state", "clip_reduce_state", "step")

\* line 139: self.optimizer.step()
OptimizerStep ==
    /\ tb_pc = "step"
    /\ model' = OptimizerStepParams(model, optimizer, grads)
    /\ optimizer' = OptimizerStepState(optimizer, grads)
    /\ events' = Append(events, "step")
    /\ tb_pc' = "return"
    /\ UNCHANGED <<pc, run, clock, n_iters, model_file_path, evaluate, iter,
                   running_avg_loss, model_path, batcher, model_dir, files,
                   start_iter, steps, saved, calls, cont, hist, raised,
                   evaluated, iter_loss, is_coverage, batch, di, out, coverage,
                   step_losses, sum_losses, batch_avg_loss, loss, grads,
                   backward_grads>>

\* line 141 and lines 155-172: loss.item() is returned and the loop's body
\* goes on
FinishIteration ==
    /\ pc = "train"
    /\ tb_pc = "return"
    /\ EndOfIteration(model, optimizer, LossItem(loss))
    /\ tb_pc' = "idle"
    /\ UNCHANGED <<run, is_coverage, n_iters, model_file_path, evaluate, batch,
                   model, optimizer, batcher, model_dir, start_iter, calls,
                   raised, di, out, coverage, step_losses, sum_losses,
                   batch_avg_loss, loss, grads, backward_grads, events>>

\* a plausible slip: the failure surfaces only after optimizer.step()
RaisePointsAfterStep == {"return"}

\* where train_one_batch stands when an adapter (lines 94-97), the forward
\* pass (lines 101-129) or the backward pass (line 131) raises
RaisePoints == {"idle", "encoder", "reduce_state", "decode", "backward"}

\* the call train_one_batch stands at raises; nothing catches the exception
TrainRaises ==
    /\ pc = "train"
    /\ LastIteration
    /\ tb_pc \in RaisePoints
    /\ tb_pc' = "raised"
    /\ pc' = "aborted"
    /\ raised' = "train_one_batch"
    /\ UNCHANGED <<run, clock, n_iters, model_file_path, evaluate, iter,
                   running_avg_loss, model_path, model, optimizer, batcher,
                   model_dir, files, start_iter, steps, saved, calls, cont,
                   hist, evaluated, iter_loss, is_coverage, batch, di, out, coverage,
                   step_losses, sum_losses, batch_avg_loss, loss, grads,
                   backward_grads, events>>

NextBatchStep ==
    \/ SetupTrain
    \/ NextBatch
    \/ LoopExit
    \/ EarlierIteration
    \/ Adapters
    \/ ZeroGrad
    \/ Encoder
    \/ ReduceState
    \/ DecodeStep
    \/ ReduceLoss
    \/ BackwardPass
    \/ ClipEncoder
    \/ ClipDecoder
    \/ ClipReduceState
    \/ OptimizerStep
    \/ FinishIteration
    \/ TrainRaises

SpecBatch == InitBatch /\ [][NextBatchStep]_vars


(***************************************************************************)
(* Properties of the loss of train_one_batch.                              *)
(***************************************************************************)
\* the coverage the decoder was handed at the step that returned out
CoverageBefore(e) ==
    IF is_coverage
    THEN [k \in Positions |-> coverage[e][k] - out.attn_dist[e][k]]
    ELSE coverage[e]

\* the steps of step_losses at which example e is not padding
UnpaddedSteps(e) ==
    {k \in 1..Len(step_losses) : dec_padding_mask(batch, e, k - 1) = 1}

RECURSIVE SumOver(_, _)
SumOver(S, e) ==
    IF S = {} THEN 0
    ELSE LET k == CHOOSE x \in S : TRUE
         IN step_losses[k][e] + SumOver(S \ {k}, e)

\* C9: padded positions are excluded from the loss. For every decode step
\* and every example whose target padding mask is 0 at that step, the
\* step's entry in step_losses is 0 whatever the decoder returned, the
\* coverage term included; so the example's summed loss is the sum over its
\* unpadded steps alone.
C9_PaddedStepsExcluded ==
    /\ \A k \in 1..Len(step_losses) : \A e \in Examples :
         dec_padding_mask(batch, e, k - 1) = 0 => step_losses[k][e] = 0
    /\ tb_pc = "backward" =>
         \A e \in Examples : sum_losses[e] = SumOver(UnpaddedSteps(e), e)

\* C9's case: in coverage mode a padded position where both the negative
\* log-likelihood and the coverage term are positive before the mask
C9_Witness ==
    /\ tb_pc = "decode"
    /\ di >= 1
    /\ is_coverage
    /\ \E e \in Examples :
         /\ dec_padding_mask(batch, e, di - 1) = 0
         /\ NegLogEps(out.gold_probs[e]) > 0
         /\ SumMin(out.attn_dist[e], CoverageBefore(e), SrcLen) > 0
         /\ UnmaskedStepLoss(out.gold_probs[e], out.attn_dist[e],
                             CoverageBefore(e), is_coverage) > 0

\* x and y are the same fraction
FracEq(x, y) == x[1] * y[2] = y[1] * x[2]

\* C10: once the losses are reduced, the list holds min(max_dec_len,
\* max_dec_steps) step losses, each example's average is the sum of its
\* step losses divided by its target length, the batch loss is the mean of
\* the averages, and for an example whose target length is the number of
\* decode steps and whose mask is 1 throughout the average is the
\* unweighted mean of its step losses.
C10_PerExampleAverage ==
    tb_pc = "backward" =>
      /\ Len(step_losses) = Min(max_dec_len(batch), max_dec_steps)
      /\ \A e \in Examples :
           /\ batch_avg_loss[e][2] > 0
           /\ batch_avg_loss[e][1] * batch.dec_lens[e] =
                batch_avg_loss[e][2] * SumOver(1..Len(step_losses), e)
           /\ (/\ batch.dec_lens[e] = Len(step_losses)
               /\ UnpaddedSteps(e) = 1..Len(step_losses))
              => batch_avg_loss[e][1] * Len(step_losses) =
                   batch_avg_loss[e][2] * SumOver(1..Len(step_losses), e)
      /\ loss[2] > 0
      /\ FracEq(<<loss[1] * batch_size, loss[2]>>,
                FracSumTo(batch_avg_loss, batch_size))

\* C10's case: a reduced batch with one example as long as the decode loop
\* and one shorter, both with a positive summed loss
C10_Witness ==
    /\ tb_pc = "backward"
    /\ \E e \in Examples :
         /\ batch.dec_lens[e] = Len(step_losses)
         /\ UnpaddedSteps(e) = 1..Len(step_losses)
         /\ sum_losses[e] > 0
    /\ \E e \in Examples :
         /\ batch.dec_lens[e] < Len(step_losses)
         /\ sum_losses[e] > 0
    /\ loss[1] > 0

\* the coverage term of example e for attention attn and coverage cov
CoverageTerm(attn, cov, e) ==
    SumTo([k \in Positions |-> Min(attn[e][k], cov[e][k])], SrcLen)

\* what C17 says of one pass of the decode loop: coverage is the value
\* before the pass, coverage' the value after it
C17_Step ==
    (tb_pc = "decode" /\ di' = di + 1) =>
      LET sl == step_losses'[Len(step_losses')]
          attn == out'.attn_dist
      IN /\ Len(step_losses') = di'
         /\ di = 0 => coverage = ZeroCoverage
         /\ is_coverage =>
              /\ \A e \in Examples :
                   /\ CoverageTerm(attn, coverage, e) >= 0
                   /\ di = 0 => CoverageTerm(attn, coverage, e) = 0
                   /\ sl[e] = (NegLogEps(out'.gold_probs[e])
                                + cov_loss_wt * CoverageTerm(attn, coverage, e))
                              * dec_padding_mask(batch, e, di)
              /\ coverage' = NextCoverage(coverage, attn)
         /\ ~is_coverage =>
              /\ \A e \in Examples :
                   sl[e] = NegLogEps(out'.gold_probs[e])
                           * dec_padding_mask(batch, e, di)
              /\ coverage' = coverage
              /\ coverage = ZeroCoverage

\* C17: in coverage mode the coverage term of decode step di is the sum of
\* the element-wise minimum of step di's attention distribution and the
\* coverage accumulated by the steps before di (the value before this step's
\* update), is non-negative, and only afterwards is the coverage replaced by
\* the decoder's returned next coverage; with coverage mode disabled no
\* coverage term is added and the coverage handed to the decoder is the same
\* initial value at every step.
C17_CoverageTerm == [][C17_Step]_vars

\* C17's case: the second decode step in coverage mode attends, for an
\* unpadded example, where the first step attended, so the term is positive
\* and is part of the step's loss
C17_Witness ==
    /\ tb_pc = "decode"
    /\ di = 2
    /\ is_coverage
    /\ \E e \in Examples :
         /\ dec_padding_mask(batch, e, 1) = 1
         /\ SumMin(out.attn_dist[e], CoverageBefore(e), SrcLen) = 100
         /\ step_losses[2][e] = NegLogEps(out.gold_probs[e]) + cov_loss_wt * 100
         /\ coverage[e] # CoverageBefore(e)


(***************************************************************************)
(* Properties of the steps of train_one_batch.                             *)
(***************************************************************************)
\* the groups whose clip_grad_norm_ call has returned
ClippedGroups ==
    CASE tb_pc = "clip_decoder" -> {"encoder"}
      [] tb_pc = "clip_reduce_state" -> {"encoder", "decoder"}
      [] tb_pc \in {"step", "return"} -> Groups
      [] OTHER -> {}

\* the norm of group g's gradient as backward left it exceeds max_grad_norm
ExceedsNorm(g) == Abs(backward_grads[g]) > max_grad_norm

\* C11: gradient clipping is independent per parameter group. Through the
\* clipping phase a group whose call has returned has its norm rescaled to
\* max_grad_norm (direction kept) if it exceeded it and its gradient
\* unchanged if it was within the bound, a group whose call has not yet been
\* made still has the gradient backward left, and once the phase is over
\* every group's norm is at most max_grad_norm.
C11_ClippingPerGroup ==
    tb_pc \in {"clip_encoder", "clip_decoder", "clip_reduce_state", "step"} =>
      /\ \A g \in Groups \ ClippedGroups : grads[g] = backward_grads[g]
      /\ \A g \in ClippedGroups :
           IF ExceedsNorm(g)
           THEN /\ Abs(grads[g]) = max_grad_norm
                /\ (grads[g] < 0) = (backward_grads[g] < 0)
           ELSE grads[g] = backward_grads[g]
      /\ tb_pc = "step" => \A g \in Groups : Abs(grads[g]) <= max_grad_norm

\* C11's case: the clipping phase is over, exactly one group's norm exceeded
\* the bound and was rescaled, and a group with a gradient within the bound
\* and not zero has kept it
C11_Witness ==
    /\ tb_pc = "step"
    /\ Cardinality({g \in Groups : ExceedsNorm(g)}) = 1
    /\ \E g \in Groups :
         /\ ExceedsNorm(g)
         /\ Abs(grads[g]) = max_grad_norm
    /\ \E g \in Groups :
         /\ ~ExceedsNorm(g)
         /\ backward_grads[g] # 0
         /\ grads[g] = backward_grads[g]


RECURSIVE TrainedState(_, _)
\* a fresh run after k whole iterations: the parameters, the optimizer and
\* the running average loss
TrainedState(k, is_cov) ==
    IF k = 0
    THEN [model |-> FreshModel,
          optimizer |-> FreshOptimizer(initial_lr(is_cov)),
          running_avg_loss |-> 0]
    ELSE LET p == TrainedState(k - 1, is_cov)
             r == train_one_batch(p.model, p.optimizer, BatcherBatch(k), is_cov)
         IN [model |-> r.model,
             optimizer |-> r.optimizer,
             running_avg_loss |->
                 calc_running_avg_loss(r.loss, p.running_avg_loss, k - 1)]

\* train_one_batch has raised: the run is aborted with everything as the
\* previous iteration left it, the batch that failed being the last fetched
C13_Aborted ==
    raised = "train_one_batch" =>
      LET p == TrainedState(iter, is_coverage)
      IN /\ pc = "aborted"
         /\ model = p.model
         /\ optimizer = p.optimizer
         /\ running_avg_loss = p.running_avg_loss
         /\ iter = steps
         /\ iter < n_iters
         /\ batcher = iter + 1
         /\ files = <<>>
         /\ saved = <<>>

\* C13: an error raised inside an iteration before the optimizer step (in
\* an adapter, the forward pass or the backward pass) aborts the run with no
\* partial-iteration effect: parameters, accumulators, running average loss
\* and counter are those of the end of the previous iteration, no checkpoint
\* is written, and nothing follows: no further batch is fetched.
C13_NoPartialEffect ==
    /\ []C13_Aborted
    /\ [][pc # "aborted"]_vars

\* C13's case: the backward pass of the third iteration raises, after two
\* iterations that moved the parameters and a forward pass that computed
\* step losses
C13_Witness ==
    /\ raised = "train_one_batch"
    /\ iter = 2
    /\ model # FreshModel
    /\ optimizer # FreshOptimizer(initial_lr(is_coverage))
    /\ sum_losses # <<>>
    /\ events[Len(events)] = "decoder"


\* the calls of one train_one_batch on batch b, in the order of the claim
ExpectedEvents(b) ==
    <<"zero_grad", "encoder", "reduce_state">>
    \o [i \in 1..DecodeSteps(b) |-> "decoder"]
    \o <<"backward", "clip_encoder", "clip_decoder", "clip_reduce_state",
         "step">>

IsPrefix(s, t) == Len(s) <= Len(t) /\ s = SubSeq(t, 1, Len(s))

\* the calls made so far are the first of the expected ones, and all of them
\* once train_one_batch returns
C16_Order ==
    /\ events # <<>> => IsPrefix(events, ExpectedEvents(batch))
    /\ (tb_pc = "return" \/ (tb_pc = "idle" /\ events # <<>>)) =>
         events = ExpectedEvents(batch)

\* in the iteration followed step by step, the parameters and the
\* accumulators change in optimizer.step() only, its last call
C16_Step ==
    (pc = "train" /\ LastIteration
       /\ (model' # model \/ optimizer' # optimizer)) =>
      /\ tb_pc = "step"
      /\ events' = ExpectedEvents(batch)

\* C16: within every iteration the steps occur in this order and
\* multiplicity: gradients are zeroed once before the forward pass, the
\* encoder and the state reducer each run once before the first decode step,
\* the backward pass runs once after the last decode step, the three
\* per-group gradient clippings all run after the backward pass and before
\* the optimizer step, and the optimizer step runs exactly once as the last
\* mutation; parameters and accumulators change only in that optimizer step.
C16_StepOrder ==
    /\ []C16_Order
    /\ [][C16_Step]_vars

\* C16's case: train_one_batch is about to return from an iteration with two
\* decode steps whose optimizer step changed the parameters
C16_Witness ==
    /\ tb_pc = "return"
    /\ DecodeSteps(batch) = 2
    /\ Len(events) = 10
    /\ model # TrainedState(iter, is_coverage).model
    /\ optimizer # TrainedState(iter, is_coverage).optimizer

=============================================================================
